---- MODULE Spec2Model ----
(***************************************************************************)
(* VideoAsciiPlayer (src/src/asciiPlayer/VideoAsciiDemo.tsx, lines 10-188): *)
(* a player that draws the current frame of a video, or a still image, on  *)
(* an offscreen canvas, block-averages the red channel, maps every block   *)
(* to a glyph of a palette, and repeats this once per animation frame      *)
(* while the video plays.                                                  *)
(*                                                                         *)
(* The player's fields and the browser objects it drives (the video        *)
(* elements, the list of requested animation frames) are the variables.    *)
(* Every method is an operator from a state record to a state record, so   *)
(* that a method calling another (destroy -> stop -> stopRendering) is the *)
(* composition of the operators; every action applies one method, or one   *)
(* step of the browser, to the current state.                              *)
(***************************************************************************)
EXTENDS Integers, Sequences, FiniteSets, TLC

VARIABLES
    chars,            \* this.chars: the palette, a sequence of one-character strings
    step,             \* this.step
    threshold,        \* this.threshold
    invert,           \* this.invert
    currentVideo,     \* this.currentVideo: a video element or NoVideo
    canvasW,          \* this.canvas.width
    canvasH,          \* this.canvas.height
    canvasPix,        \* the canvas bitmap, RGBA row-major (<<>>: transparent black)
    data,             \* this.data: the stored glyph grid
    animationFrameId, \* this.animationFrameId: a request id or NoFrame
    onFrameCallback,  \* this.onFrameCallback: a callback or NoCallback
    paused,           \* video.paused of every video element
    currentTime,      \* video.currentTime of every video element (frame number)
    rafPending,       \* the browser's list of requested animation frames (ids)
    rafNext,          \* the last id requestAnimationFrame handed out
    emitted,          \* the grids handed to the callback during the last step
    threw,            \* the error the last call threw, or NoError
    lastOp,           \* the last call or browser step
    loads,            \* the promises loadVideo and loadImage have returned
    playerRef,        \* the demo's playerRef.current: a player's number or NoPlayer
    isPlaying,        \* the demo's isPlaying
    kept,             \* the grid arrays the callers of the player hold
    halted,           \* pause(), stop() or destroy() has returned, and no
                      \* play() has returned without an error since
    unmounted         \* the demo component has been unmounted

vars == <<chars, step, threshold, invert, currentVideo, canvasW, canvasH,
          canvasPix, data, animationFrameId, onFrameCallback, paused,
          currentTime, rafPending, rafNext, emitted, threw, lastOp, loads,
          playerRef, isPlaying, kept, halted, unmounted>>

(***************************************************************************)
(* Bounds of the model.                                                    *)
(***************************************************************************)
MaxW == 3        \* widest still image of the conversion specification
MaxH == 2        \* tallest still image of the conversion specification
MaxStep == 3     \* largest number passed to setStep
MaxTime == 1     \* a video has the frames 0..MaxTime and loops
MaxRaf == 4      \* requestAnimationFrame calls in one behaviour
MaxLoads == 2    \* loadVideo and loadImage calls in one behaviour
MaxKept == 2     \* grid arrays the callers hold in one behaviour

(***************************************************************************)
(* Values of the platform.                                                 *)
(***************************************************************************)
NoVideo == "null"
NoCallback == "null"
NoFrame == 0
NoPlayer == 0
NoError == "none"
NoVideoLoaded == "No video loaded. Call setVideo() first."
IndexSizeError == "IndexSizeError"
Undefined == "undefined"
NeverReturns == "never returns"

\* document.createElement('canvas') is 300 x 150, transparent black.
DefaultCanvasWidth == 300
DefaultCanvasHeight == 150

DefaultChars == <<"@", "%", "#", "*", "+", "=", "-", ":", ".", " ">>
DefaultStep == 2

\* -Infinity, as a threshold: a number below every average (they are >= 0).
MinusInfinity == 0 - 1

\* Math.floor(255 * ((chars.length - 1) / chars.length)); the double result
\* equals the exact floor for every palette length below 30, and for the
\* empty string it is Math.floor(255 * (-1 / 0)) = -Infinity.
DefaultThreshold(cs) ==
    IF cs = <<>> THEN MinusInfinity ELSE (255 * (Len(cs) - 1)) \div Len(cs)

(***************************************************************************)
(* The media of the model: two videos of different sizes whose frames      *)
(* differ, and callbacks that record the grid they are given.              *)
(***************************************************************************)
Videos == {"v1", "v2"}
Callbacks == {"show"}

\* The callbacks of the demo: handlePlayPause passes one that shows the grid
\* (lines 426-428), the loaders one that also sets isPlaying (lines 273-276).
Show == "show"
ShowPlaying == "showPlaying"

\* A callback that keeps the array it is given.
Keep == "keep"

VideoWidth(v) == IF v = "v1" THEN 3 ELSE 2
VideoHeight(v) == IF v = "v1" THEN 2 ELSE 1

Shades == <<0, 64, 128, 200, 255>>

\* The decoded frame t of video v: RGBA, row-major, opaque.
VideoFrame(v, t) ==
    [i \in 1..(4 * VideoWidth(v) * VideoHeight(v)) |->
        LET p == (i - 1) \div 4
            c == (i - 1) % 4
            r == Shades[((p + 2 * t + (IF v = "v1" THEN 0 ELSE 3)) % Len(Shades)) + 1]
        IN  CASE c = 0 -> r
              [] c = 1 -> 255 - r
              [] c = 2 -> 77
              [] OTHER -> 255]

\* A decoded still image: its size and its pixels.
ImageOf(w, h, red) ==
    [width |-> w, height |-> h,
     pix |-> [i \in 1..(4 * w * h) |->
                LET p == (i - 1) \div 4
                    c == (i - 1) % 4
                IN  CASE c = 0 -> red[p + 1]
                      [] c = 1 -> 255 - red[p + 1]
                      [] c = 2 -> 77
                      [] OTHER -> 255]]

(***************************************************************************)
(* The conversion: computeAsciiFromCanvas, lines 138-166.                  *)
(***************************************************************************)
Max(a, b) == IF a >= b THEN a ELSE b

\* img[i] of the ImageData of a bitmap (i counts from 0).
Pixel(pix, i) == IF pix = <<>> THEN 0 ELSE pix[i + 1]

\* chars[idx]: a character of the palette, or undefined outside it.
CharAt(cs, idx) == IF idx >= 0 /\ idx < Len(cs) THEN cs[idx + 1] ELSE Undefined

\* The loops over dy and dx (lines 147-156), k = dy * step + dx: the sum of
\* the red channel over the pixels of the block that lie inside the bitmap.
RECURSIVE BlockSum(_, _, _, _, _, _, _)
BlockSum(img, w, h, x, y, st, k) ==
    IF k >= st * st THEN 0
    ELSE LET py == y + (k \div st)
             px == x + (k % st)
             idx == (py * w + px) * 4
         IN  (IF py < h /\ px < w THEN Pixel(img, idx) ELSE 0)
             + BlockSum(img, w, h, x, y, st, k + 1)

\* The values avg takes are the rationals num / (step * step); num stands for
\* avg below.  JavaScript evaluates Math.floor((avg2 / 255) * (L - 1)) in
\* IEEE-754 doubles, and the product is rounded just below the integer it
\* equals in exact arithmetic at these values (the only ones for step <= 6
\* and palettes of at most 14 glyphs): avg = 425/3 with ten glyphs, and
\* avg = 170/3 obtained as 255 - 595/3 with ten glyphs.
RoundsBelow(num, den, L, inv) ==
    /\ L = 10
    /\ \/ ~inv /\ 3 * num = 425 * den
       \/ inv /\ 3 * num = 170 * den

\* Math.floor((avg2 / 255) * (chars.length - 1)), line 160, avg2 = num / den.
FloorIndex(num, den, L, inv) ==
    LET exact == (num * (L - 1)) \div (255 * den)
    IN  IF RoundsBelow(num, den, L, inv) THEN exact - 1 ELSE exact

\* A block whose divisor counts only the pixels inside the bitmap.
BlockAverageInside(img, w, h, x, y, st) ==
    [num |-> BlockSum(img, w, h, x, y, st, 0),
     den |-> Cardinality({k \in 0..(st * st - 1) :
                             y + (k \div st) < h /\ x + (k % st) < w})]

\* A block that sums the green channel, img[idx + 1].
BlockAverageGreen(img, w, h, x, y, st) ==
    [num |-> BlockSum(IF img = <<>> THEN img ELSE Tail(img), w, h, x, y, st, 0),
     den |-> st * st]

\* A block whose sum is kept in eight bits.
BlockAverageWraps(img, w, h, x, y, st) ==
    [num |-> BlockSum(img, w, h, x, y, st, 0) % 256, den |-> st * st]

\* sum / (this.step * this.step), lines 146-157: the average of the block at
\* (x, y) as the fraction num / den.
BlockAverage(img, w, h, x, y, st) ==
    [num |-> BlockSum(img, w, h, x, y, st, 0), den |-> st * st]

\* An index that takes no notice of invert.
GlyphIndexNoInvert(a, cs, th, inv) ==
    LET avg2 == IF a.num > th * a.den THEN 255 * a.den ELSE a.num
    IN  FloorIndex(avg2, a.den, Len(cs), FALSE)

\* An index that clips a brightness above the threshold to 0.
GlyphIndexClipsDark(a, cs, th, inv) ==
    LET avg == IF inv THEN 255 * a.den - a.num ELSE a.num
        avg2 == IF avg > th * a.den THEN 0 ELSE avg
    IN  FloorIndex(avg2, a.den, Len(cs), inv)

\* Lines 158-160: from the average of a block to its index in the palette.
GlyphIndex(a, cs, th, inv) ==
    LET avg == IF inv THEN 255 * a.den - a.num ELSE a.num
        avg2 == IF avg > th * a.den THEN 255 * a.den ELSE avg
    IN  FloorIndex(avg2, a.den, Len(cs), inv)

\* A conversion that clips at the threshold before it inverts.
GlyphClipFirst(a, cs, th, inv) ==
    LET clip == IF a.num > th * a.den THEN 255 * a.den ELSE a.num
        avg2 == IF inv THEN 255 * a.den - clip ELSE clip
    IN  CharAt(cs, FloorIndex(avg2, a.den, Len(cs), inv))

\* Lines 158-161: from the average of a block to its glyph.
Glyph(a, cs, th, inv) == CharAt(cs, GlyphIndex(a, cs, th, inv))

\* A loop that stops before a block that does not fit whole.
LoopValuesWhole(h, st) == {y \in 0..(h - 1) : y % st = 0 /\ y + st <= h}

\* The values the variable of the loop for (y = 0; y < h; y += step) takes,
\* lines 143 and 145: the multiples of step below h.
LoopValues(h, st) == {y \in 0..(h - 1) : y % st = 0}

\* The loop over x (lines 145-162): one row of glyphs; pass c of the loop
\* has x = (c - 1) * step.
Row(img, w, h, y, st, cs, th, inv) ==
    [c \in 1..Cardinality(LoopValues(w, st)) |->
        Glyph(BlockAverage(img, w, h, (c - 1) * st, y, st), cs, th, inv)]

\* The loop over y (lines 143-164): the grid; pass r has y = (r - 1) * step.
Rows(img, w, h, st, cs, th, inv) ==
    [r \in 1..Cardinality(LoopValues(h, st)) |->
        Row(img, w, h, (r - 1) * st, st, cs, th, inv)]

\* drawImage(src, 0, 0, sw, sh) on a canvas of cw x ch pixels: the source is
\* drawn unscaled at the origin and cut at the canvas's edges.
DrawImage(pix, cw, ch, src, sw, sh) ==
    [i \in 1..(4 * cw * ch) |->
        LET p == (i - 1) \div 4
            c == (i - 1) % 4
            x == p % cw
            y == p \div cw
        IN  IF x < sw /\ y < sh THEN src[(y * sw + x) * 4 + c + 1]
            ELSE Pixel(pix, i - 1)]

(***************************************************************************)
(* The state as one record, and the methods of the class as operators on   *)
(* it.                                                                     *)
(***************************************************************************)
S == [chars |-> chars, step |-> step, threshold |-> threshold,
      invert |-> invert, currentVideo |-> currentVideo, canvasW |-> canvasW,
      canvasH |-> canvasH, canvasPix |-> canvasPix, data |-> data,
      animationFrameId |-> animationFrameId,
      onFrameCallback |-> onFrameCallback, paused |-> paused,
      currentTime |-> currentTime, rafPending |-> rafPending,
      rafNext |-> rafNext, emitted |-> emitted, threw |-> threw,
      loads |-> loads, playerRef |-> playerRef, isPlaying |-> isPlaying,
      kept |-> kept, halted |-> halted, unmounted |-> unmounted]

\* The state a call starts in: nothing thrown, nothing handed out yet.
Entry == [S EXCEPT !.threw = NoError, !.emitted = <<>>]

\* The constructor, lines 22-30, in a document whose videos are loaded and
\* not playing, in which nothing is being loaded and the demo holds no player.
NewPlayer(cs, st, th) ==
    [chars |-> cs, step |-> st, threshold |-> th, invert |-> FALSE,
     currentVideo |-> NoVideo,
     canvasW |-> DefaultCanvasWidth, canvasH |-> DefaultCanvasHeight,
     canvasPix |-> <<>>, data |-> <<>>,
     animationFrameId |-> NoFrame, onFrameCallback |-> NoCallback,
     paused |-> [v \in Videos |-> TRUE], currentTime |-> [v \in Videos |-> 0],
     rafPending |-> {}, rafNext |-> 0, emitted |-> <<>>, threw |-> NoError,
     loads |-> <<>>, playerRef |-> NoPlayer, isPlaying |-> FALSE,
     kept |-> <<>>, halted |-> FALSE, unmounted |-> FALSE]

\* An array a caller holds: grid is what the array contains now, was what it
\* contained when the player handed it out, and cur says that it is the
\* array this.data refers to.
Held(g) == [grid |-> g, was |-> g, cur |-> TRUE]

\* An assignment that empties the array this.data refers to and fills it
\* with the new rows.
StoreGridInPlace(s, arr) ==
    [s EXCEPT !.data = arr,
              !.kept = [i \in DOMAIN @ |->
                           IF @[i].cur THEN [@[i] EXCEPT !.grid = arr]
                           ELSE @[i]]]

\* this.data = arr (line 165) and this.data = [] (line 185), arr a new
\* array (lines 142 and 144): the arrays handed out before are no longer the
\* one this.data refers to, and stay as they are.
StoreGrid(s, arr) ==
    [s EXCEPT !.data = arr,
              !.kept = [i \in DOMAIN @ |-> [@[i] EXCEPT !.cur = FALSE]]]

\* A setStep that converts the canvas again with the new step.
SetStepOpConverts(s, n) ==
    LET r == [s EXCEPT !.step = Max(1, n)]
    IN  IF r.canvasW = 0 \/ r.canvasH = 0 THEN r
        ELSE [r EXCEPT !.data = Rows(r.canvasPix, r.canvasW, r.canvasH,
                                     r.step, r.chars, r.threshold, r.invert)]

\* setStep, lines 32-34 (n an integer).
SetStepOp(s, n) == [s EXCEPT !.step = Max(1, n)]

\* setVideo, lines 52-56; assigning canvas.width clears the bitmap.
SetVideoOp(s, v) ==
    [s EXCEPT !.currentVideo = v,
              !.canvasW = VideoWidth(v),
              !.canvasH = VideoHeight(v),
              !.canvasPix = <<>>]

\* A setImage that converts the image it has drawn.
SetImageOpConverts(s, img) ==
    LET r == [s EXCEPT !.currentVideo = NoVideo,
                       !.canvasW = img.width,
                       !.canvasH = img.height,
                       !.canvasPix = DrawImage(<<>>, img.width, img.height,
                                               img.pix, img.width, img.height)]
    IN  [r EXCEPT !.data = Rows(r.canvasPix, r.canvasW, r.canvasH,
                                r.step, r.chars, r.threshold, r.invert)]

\* setImage, lines 68-73.
SetImageOp(s, img) ==
    [s EXCEPT !.currentVideo = NoVideo,
              !.canvasW = img.width,
              !.canvasH = img.height,
              !.canvasPix = DrawImage(<<>>, img.width, img.height,
                                      img.pix, img.width, img.height)]

\* setInvert, lines 79-81.
SetInvertOp(s, v) == [s EXCEPT !.invert = v]

\* computeAsciiFromCanvas, lines 138-166; getImageData throws IndexSizeError
\* for a rectangle of width or height 0.  With a step below 1 the loops of
\* lines 143 and 145 never reach h and w (y += 0, y += -1): the call pushes
\* cells until the memory is used up and does not return.
ComputeAsciiFromCanvas(s) ==
    IF s.canvasW = 0 \/ s.canvasH = 0
    THEN [s EXCEPT !.threw = IndexSizeError]
    ELSE IF s.step < 1
    THEN [s EXCEPT !.threw = NeverReturns]
    ELSE StoreGrid(s, Rows(s.canvasPix, s.canvasW, s.canvasH,
                           s.step, s.chars, s.threshold, s.invert))

\* processImage, lines 75-77.
ProcessImageOp(s) == ComputeAsciiFromCanvas(s)

\* updateAsciiData, lines 130-136.
UpdateAsciiData(s) ==
    IF s.currentVideo = NoVideo THEN s
    ELSE LET v == s.currentVideo
             w == VideoWidth(v)
             h == VideoHeight(v)
         IN  ComputeAsciiFromCanvas(
                 [s EXCEPT !.canvasPix =
                     DrawImage(s.canvasPix, s.canvasW, s.canvasH,
                               VideoFrame(v, s.currentTime[v]), w, h)])

\* A getAsciiFrame that returns the stored grid of a still image.
GetAsciiFrameOpCached(s) ==
    IF s.currentVideo # NoVideo THEN UpdateAsciiData(s)
    ELSE IF s.data # <<>> THEN s
    ELSE ComputeAsciiFromCanvas(s)

\* A getAsciiFrame that clears the bitmap once it has converted it.
GetAsciiFrameOpClears(s) ==
    LET r == IF s.currentVideo # NoVideo THEN UpdateAsciiData(s)
             ELSE ComputeAsciiFromCanvas(s)
    IN  [r EXCEPT !.canvasPix = <<>>]

\* A getAsciiFrame that also hands the grid to the callback.
GetAsciiFrameOpNotifies(s) ==
    IF s.currentVideo # NoVideo
    THEN LET u == UpdateAsciiData(s)
         IN  IF u.onFrameCallback # NoCallback
             THEN [u EXCEPT !.emitted = Append(@, u.data)]
             ELSE u
    ELSE ComputeAsciiFromCanvas(s)

\* getAsciiFrame, lines 121-128; the grid it returns is the stored one.
GetAsciiFrameOp(s) ==
    IF s.currentVideo # NoVideo THEN UpdateAsciiData(s)
    ELSE ComputeAsciiFromCanvas(s)

\* A caller keeps the array it is given, as the demo's setAsciiFrame does
\* (lines 274 and 361); the model follows the first MaxKept arrays.
KeepGrid(s) ==
    IF Len(s.kept) < MaxKept THEN [s EXCEPT !.kept = Append(@, Held(s.data))]
    ELSE s

\* this.onFrameCallback(this.data), line 107: the callbacks of the model
\* keep the grid they are given and call nothing of the player; the callback
\* loadDemoVideo passes (lines 273-276) also sets the demo's isPlaying.
InvokeCallback(s) ==
    IF s.onFrameCallback # NoCallback
    THEN LET r == [s EXCEPT !.emitted = Append(@, s.data),
                            !.isPlaying = IF s.onFrameCallback = ShowPlaying
                                          THEN TRUE ELSE @]
         IN  IF s.onFrameCallback = Keep THEN KeepGrid(r) ELSE r
    ELSE s

\* this.animationFrameId = requestAnimationFrame(render), line 108.
RequestFrame(s) ==
    LET id == s.rafNext + 1
    IN  [s EXCEPT !.rafNext = id,
                  !.rafPending = @ \cup {id},
                  !.animationFrameId = id]

\* A render that does not ask whether the video is paused.
RenderAlways(s) ==
    IF s.currentVideo # NoVideo
    THEN LET u == UpdateAsciiData(s)
         IN  IF u.threw # NoError THEN u ELSE RequestFrame(InvokeCallback(u))
    ELSE s

\* render, lines 104-110.
Render(s) ==
    IF s.currentVideo # NoVideo /\ ~s.paused[s.currentVideo]
    THEN LET u == UpdateAsciiData(s)
         IN  IF u.threw # NoError THEN u ELSE RequestFrame(InvokeCallback(u))
    ELSE s

\* startRendering, lines 103-112.
StartRendering(s) == Render(s)

\* stopRendering, lines 114-119.
StopRendering(s) ==
    IF s.animationFrameId # NoFrame
    THEN [s EXCEPT !.rafPending = @ \ {s.animationFrameId},
                   !.animationFrameId = NoFrame]
    ELSE s

\* A play that stores the callback before it looks for the video.
PlayOpLateCheck(s, cb) ==
    IF s.currentVideo = NoVideo
    THEN [s EXCEPT !.onFrameCallback = cb, !.threw = NoVideoLoaded]
    ELSE StartRendering(
             [s EXCEPT !.onFrameCallback = cb,
                       !.paused[s.currentVideo] = FALSE])

\* play, lines 83-88; video.play() clears video.paused at once.
PlayOp(s, cb) ==
    IF s.currentVideo = NoVideo THEN [s EXCEPT !.threw = NoVideoLoaded]
    ELSE StartRendering(
             [s EXCEPT !.onFrameCallback = cb,
                       !.paused[s.currentVideo] = FALSE])

\* A pause that resumes a paused video.
PauseOpToggle(s) ==
    StopRendering(
        IF s.currentVideo # NoVideo
        THEN [s EXCEPT !.paused[s.currentVideo] = ~@]
        ELSE s)

\* pause, lines 90-93.
PauseOp(s) ==
    StopRendering(
        IF s.currentVideo # NoVideo
        THEN [s EXCEPT !.paused[s.currentVideo] = TRUE]
        ELSE s)

\* stop, lines 95-101.
StopOp(s) ==
    StopRendering(
        IF s.currentVideo # NoVideo
        THEN [s EXCEPT !.paused[s.currentVideo] = TRUE,
                       !.currentTime[s.currentVideo] = 0]
        ELSE s)

\* A destroy that keeps the video.
DestroyOpKeepsVideo(s) ==
    [StopOp(s) EXCEPT !.canvasW = 0,
                      !.canvasH = 0,
                      !.canvasPix = <<>>,
                      !.data = <<>>,
                      !.onFrameCallback = NoCallback]

\* A destroy that pauses the video where it is.
DestroyOpNoRewind(s) ==
    [PauseOp(s) EXCEPT !.currentVideo = NoVideo,
                       !.canvasW = 0,
                       !.canvasH = 0,
                       !.canvasPix = <<>>,
                       !.data = <<>>,
                       !.onFrameCallback = NoCallback]

\* destroy, lines 180-187.
DestroyOp(s) ==
    [StoreGrid(StopOp(s), <<>>) EXCEPT !.currentVideo = NoVideo,
                                       !.canvasW = 0,
                                       !.canvasH = 0,
                                       !.canvasPix = <<>>,
                                       !.onFrameCallback = NoCallback]

\* One animation frame of the browser: the callbacks requested before the
\* frame run in the order of their requests; a request a callback makes
\* waits for the next frame, and a cancelled one does not run.
RECURSIVE RunFrame(_, _)
RunFrame(s, todo) ==
    IF todo = {} THEN s
    ELSE LET id == CHOOSE i \in todo : \A j \in todo : i <= j
         IN  IF id \in s.rafPending
             THEN RunFrame(Render([s EXCEPT !.rafPending = @ \ {id}]),
                           todo \ {id})
             ELSE RunFrame(s, todo \ {id})

(***************************************************************************)
(* The standalone copy of the class, lines 619-815.  Its setVideo, pause,  *)
(* stop, stopRendering and destroy have the text of the embedded ones and  *)
(* are the operators above; it has no invert, no setStep and no still      *)
(* images, its updateAsciiData converts by itself, over the size of the    *)
(* video, and its getAsciiFrame asks for a video.                          *)
(***************************************************************************)
\* getImageData(0, 0, w, h).data of a canvas of cw x ch pixels: the pixels
\* of the rectangle, transparent black outside the canvas.
GetImageData(pix, cw, ch, w, h) ==
    [i \in 1..(4 * w * h) |->
        LET p == (i - 1) \div 4
            c == (i - 1) % 4
            x == p % w
            y == p \div w
        IN  IF x < cw /\ y < ch THEN Pixel(pix, (y * cw + x) * 4 + c) ELSE 0]

\* A mapping that rounds to the nearest index.
StandaloneGlyphRounds(a, cs, th) ==
    LET avg2 == IF a.num > th * a.den THEN 255 * a.den ELSE a.num
    IN  CharAt(cs, (2 * avg2 * (Len(cs) - 1) + 255 * a.den)
                       \div (2 * 255 * a.den))

\* Lines 773-776: from the average of a block to its glyph.
StandaloneGlyph(a, cs, th) ==
    LET avg2 == IF a.num > th * a.den THEN 255 * a.den ELSE a.num
    IN  CharAt(cs, FloorIndex(avg2, a.den, Len(cs), FALSE))

\* The loop over x, lines 761-777.
StandaloneRow(img, w, h, y, st, cs, th) ==
    [c \in 1..Cardinality(LoopValues(w, st)) |->
        StandaloneGlyph(BlockAverage(img, w, h, (c - 1) * st, y, st), cs, th)]

\* The loop over y, lines 759-779.
StandaloneRows(img, w, h, st, cs, th) ==
    [r \in 1..Cardinality(LoopValues(h, st)) |->
        StandaloneRow(img, w, h, (r - 1) * st, st, cs, th)]

\* updateAsciiData, lines 752-781.
StandaloneUpdateAsciiData(s) ==
    IF s.currentVideo = NoVideo THEN s
    ELSE LET v == s.currentVideo
             w == VideoWidth(v)
             h == VideoHeight(v)
             drawn == DrawImage(s.canvasPix, s.canvasW, s.canvasH,
                                VideoFrame(v, s.currentTime[v]), w, h)
             d == [s EXCEPT !.canvasPix = drawn]
         IN  IF s.step < 1 THEN [d EXCEPT !.threw = NeverReturns]
             ELSE StoreGrid(d, StandaloneRows(
                                   GetImageData(drawn, s.canvasW, s.canvasH, w, h),
                                   w, h, s.step, s.chars, s.threshold))

\* getAsciiFrame, lines 741-747.
StandaloneGetAsciiFrameOp(s) ==
    IF s.currentVideo = NoVideo THEN [s EXCEPT !.threw = NoVideoLoaded]
    ELSE StandaloneUpdateAsciiData(s)

\* render, lines 716-724.
StandaloneRender(s) ==
    IF s.currentVideo # NoVideo /\ ~s.paused[s.currentVideo]
    THEN LET u == StandaloneUpdateAsciiData(s)
         IN  IF u.threw # NoError THEN u ELSE RequestFrame(InvokeCallback(u))
    ELSE s

\* play, lines 683-691.
StandalonePlayOp(s, cb) ==
    IF s.currentVideo = NoVideo THEN [s EXCEPT !.threw = NoVideoLoaded]
    ELSE StandaloneRender(
             [s EXCEPT !.onFrameCallback = cb,
                       !.paused[s.currentVideo] = FALSE])

\* One animation frame of the browser, for a player of the standalone class.
RECURSIVE StandaloneRunFrame(_, _)
StandaloneRunFrame(s, todo) ==
    IF todo = {} THEN s
    ELSE LET id == CHOOSE i \in todo : \A j \in todo : i <= j
         IN  IF id \in s.rafPending
             THEN StandaloneRunFrame(
                      StandaloneRender([s EXCEPT !.rafPending = @ \ {id}]),
                      todo \ {id})
             ELSE StandaloneRunFrame(s, todo \ {id})

(***************************************************************************)
(* Loading: loadVideo and loadImage return a promise and give the browser  *)
(* a new element to fill; the browser later reports the metadata (or the   *)
(* decoded image), or an error, or nothing at all.                         *)
(***************************************************************************)
Pending == "pending"
Resolved == "resolved"
Rejected == "rejected"

\* The promise of a call on the player of the variables ("this") or on a
\* player the demo has constructed for this load ("new"); media is what the
\* browser has reported about the element so far.
NewLoad(kind, on) ==
    [kind |-> kind, on |-> on, promise |-> Pending, media |-> "fetching"]

\* loadVideo, lines 36-50, up to the return of the promise.
LoadVideoOp(s, on) == [s EXCEPT !.loads = Append(@, NewLoad("video", on))]

\* loadImage, lines 58-66, up to the return of the promise.
LoadImageOp(s, on) == [s EXCEPT !.loads = Append(@, NewLoad("image", on))]

\* video.onloadedmetadata (line 45) and img.onload (line 62): resolve.
OnLoadedOp(s, i) ==
    [s EXCEPT !.loads[i].promise = Resolved, !.loads[i].media = "loaded"]

\* video.onerror (line 46) and img.onerror (line 63): reject.
OnErrorOp(s, i) ==
    [s EXCEPT !.loads[i].promise = Rejected, !.loads[i].media = "error"]

\* The fetch of the element stays without an answer: no event is
\* dispatched, and the promise has no other handler and no timer.
NoAnswerOp(s, i) == [s EXCEPT !.loads[i].media = "silent"]

\* document.createElement('video'), line 38: a new element is paused at the
\* start.
NewVideoElement(s, v) ==
    [s EXCEPT !.paused[v] = TRUE, !.currentTime[v] = 0]

(***************************************************************************)
(* The demo, lines 191-608: it constructs a player for every source it     *)
(* loads and, once the source is loaded, destroys the player it holds and  *)
(* installs the new one.  The variables are the fields of the player in    *)
(* playerRef.current (of a player never used while there is none).         *)
(***************************************************************************)
DemoStep == 3         \* useState(3), line 196
DemoInvert == FALSE   \* useState(false), line 208

\* isLoading, set at lines 256 and 339 and cleared when the load settles.
IsLoading(s) ==
    \E i \in 1..Len(s.loads) :
        s.loads[i].on = "new" /\ s.loads[i].promise = Pending

\* new VideoAsciiPlayer({ step, chars }), lines 260 and 350.
DemoPlayer == NewPlayer(DefaultChars, DemoStep, DefaultThreshold(DefaultChars))

\* playerRef.current?.destroy(); playerRef.current = player (lines 270-271
\* and 355-356): the fields become those of player p, in the browser as the
\* destroyed player leaves it.  A request of the destroyed player that is
\* still in the browser's list runs its render, which finds no video and
\* does nothing (line 105): it is left out of the list.
Install(s, p) ==
    LET d == IF s.playerRef # NoPlayer THEN DestroyOp(s) ELSE s
    IN  [p EXCEPT !.paused = d.paused,
                  !.currentTime = d.currentTime,
                  !.rafPending = {},
                  !.rafNext = d.rafNext,
                  !.loads = d.loads,
                  !.isPlaying = d.isPlaying,
                  !.kept = d.kept,
                  !.halted = d.halted,
                  !.unmounted = d.unmounted,
                  !.playerRef = s.playerRef + 1]

\* A loader that gives up the player it holds before the source is loaded.
LoadDemoVideoOpDestroysFirst(s) ==
    LoadVideoOp([DestroyOp(s) EXCEPT !.playerRef = NoPlayer], "new")

\* loadDemoVideo, lines 255-266, up to the await.
LoadDemoVideoOp(s) == LoadVideoOp(s, "new")

\* loadImageFile, lines 338-351, up to the await.
LoadImageFileOp(s) == LoadImageOp(s, "new")

\* loadDemoVideo after the await, lines 268-276, video being the element v.
AfterLoadVideo(s, v) ==
    PlayOp(Install(s, SetInvertOp(SetVideoOp(DemoPlayer, v), DemoInvert)),
           ShowPlaying)

\* loadImageFile after the await, lines 353-363.
AfterLoadImage(s, img) ==
    LET q == ProcessImageOp(
                 Install(s, SetInvertOp(SetImageOp(DemoPlayer, img), DemoInvert)))
    IN  IF q.threw # NoError THEN q
        ELSE [GetAsciiFrameOp(q) EXCEPT !.isPlaying = FALSE]

\* handlePlayPause, lines 419-431.
HandlePlayPauseOp(s) ==
    IF s.playerRef = NoPlayer THEN s
    ELSE IF s.isPlaying THEN [PauseOp(s) EXCEPT !.isPlaying = FALSE]
    ELSE LET r == PlayOp(s, Show)
         IN  IF r.threw # NoError THEN r ELSE [r EXCEPT !.isPlaying = TRUE]

\* The cleanup of the effect of lines 210-214, run when the component is
\* unmounted: playerRef.current?.destroy().
UnmountOp(s) ==
    [(IF s.playerRef # NoPlayer THEN DestroyOp(s) ELSE s)
        EXCEPT !.unmounted = TRUE]

\* handleStop, lines 433-437.
HandleStopOp(s) ==
    IF s.playerRef = NoPlayer THEN [s EXCEPT !.isPlaying = FALSE]
    ELSE [StopOp(s) EXCEPT !.isPlaying = FALSE]

Become(s, op) ==
    /\ chars' = s.chars
    /\ step' = s.step
    /\ threshold' = s.threshold
    /\ invert' = s.invert
    /\ currentVideo' = s.currentVideo
    /\ canvasW' = s.canvasW
    /\ canvasH' = s.canvasH
    /\ canvasPix' = s.canvasPix
    /\ data' = s.data
    /\ animationFrameId' = s.animationFrameId
    /\ onFrameCallback' = s.onFrameCallback
    /\ paused' = s.paused
    /\ currentTime' = s.currentTime
    /\ rafPending' = s.rafPending
    /\ rafNext' = s.rafNext
    /\ emitted' = s.emitted
    /\ threw' = s.threw
    /\ lastOp' = op
    /\ loads' = s.loads
    /\ playerRef' = s.playerRef
    /\ isPlaying' = s.isPlaying
    /\ kept' = s.kept
    /\ halted' = s.halted
    /\ unmounted' = s.unmounted

\* The variables of an initial state.
Start(s, op) ==
    /\ chars = s.chars
    /\ step = s.step
    /\ threshold = s.threshold
    /\ invert = s.invert
    /\ currentVideo = s.currentVideo
    /\ canvasW = s.canvasW
    /\ canvasH = s.canvasH
    /\ canvasPix = s.canvasPix
    /\ data = s.data
    /\ animationFrameId = s.animationFrameId
    /\ onFrameCallback = s.onFrameCallback
    /\ paused = s.paused
    /\ currentTime = s.currentTime
    /\ rafPending = s.rafPending
    /\ rafNext = s.rafNext
    /\ emitted = s.emitted
    /\ threw = s.threw
    /\ lastOp = op
    /\ loads = s.loads
    /\ playerRef = s.playerRef
    /\ isPlaying = s.isPlaying
    /\ kept = s.kept
    /\ halted = s.halted
    /\ unmounted = s.unmounted

\* The palettes and thresholds players are constructed with.
TwoChars == <<"@", " ">>
PlayerOptions ==
    {[chars |-> DefaultChars, threshold |-> DefaultThreshold(DefaultChars)]}
ConvOptions ==
    PlayerOptions \cup {[chars |-> TwoChars, threshold |-> DefaultThreshold(TwoChars)],
                        [chars |-> TwoChars, threshold |-> 255]}
GlyphOptions ==
    ConvOptions \cup {[chars |-> DefaultChars, threshold |-> 100]}

\* The still images of the model: every image of black and white pixels,
\* and the images of one shade.
StillsOf(ws, hs) ==
    UNION {{ImageOf(w, h, [p \in 1..(w * h) |-> bits[p]]) :
                bits \in [1..(w * h) -> {0, 255}]}
           \cup {ImageOf(w, h, [p \in 1..(w * h) |-> Shades[k]]) :
                     k \in 1..Len(Shades)} :
           w \in ws, h \in hs}
DemoStills == {ImageOf(2, 2, <<0, 255, 128, 64>>)}

\* Still images of one shade, and of one shade but for one pixel.
ShadedStills(ws, hs) ==
    UNION {{ImageOf(w, h, [p \in 1..(w * h) |-> Shades[k]]) :
                k \in 1..Len(Shades)}
           \cup {ImageOf(w, h, [p \in 1..(w * h) |->
                                  IF p = q THEN spike ELSE base]) :
                     q \in 1..(w * h), base \in {0, 128, 200},
                     spike \in {64, 255}} :
           w \in ws, h \in hs}

\* The canvas has the size of a source of the model, or none: converting
\* the 300 x 150 canvas of a player that never had a source is left to the
\* specifications that are about it.
Sized == canvasW <= MaxW /\ canvasH <= MaxH

SetStep(n) == Become(SetStepOp(Entry, n), "setStep")
SetVideo(v) == Become(SetVideoOp(Entry, v), "setVideo")
SetImage(img) == Become(SetImageOp(Entry, img), "setImage")
ProcessImage == Become(ProcessImageOp(Entry), "processImage")
SetInvert(v) == Become(SetInvertOp(Entry, v), "setInvert")
GetAsciiFrame == Become(GetAsciiFrameOp(Entry), "getAsciiFrame")
Pause == Become(PauseOp(Entry), "pause")
Stop == Become(StopOp(Entry), "stop")
Destroy == Become(DestroyOp(Entry), "destroy")

Play(cb) ==
    /\ currentVideo = NoVideo \/ rafNext < MaxRaf
    /\ Become(PlayOp(Entry, cb), "play")

\* The browser's timing signal.
AnimationFrame ==
    /\ rafPending # {}
    /\ rafNext + Cardinality(rafPending) <= MaxRaf
    /\ Become(RunFrame(Entry, rafPending), "frame")

\* The decoder shows the next frame of a playing video; loadVideo sets
\* video.loop, so the last frame is followed by the first.
VideoAdvance(v) ==
    /\ ~paused[v]
    /\ Become([Entry EXCEPT !.currentTime[v] = (@ + 1) % (MaxTime + 1)],
              "advance")

\* The browser pauses a playing video (the media ended, or playback was
\* paused on the element itself, which getVideo() hands out).
SourceStops(v) ==
    /\ ~paused[v]
    /\ Become([Entry EXCEPT !.paused[v] = TRUE], "sourceStops")

\* A player as constructed; its configuration stays as it is (setStep and
\* setInvert are called in the specifications of the conversion).
Init ==
    \E o \in PlayerOptions :
        Start(NewPlayer(o.chars, DefaultStep, o.threshold), "new")

Next ==
    \/ \E v \in Videos : SetVideo(v)
    \/ \E img \in DemoStills : SetImage(img)
    \/ Sized /\ ProcessImage
    \/ Sized /\ GetAsciiFrame
    \/ \E cb \in Callbacks \cup {NoCallback} : Play(cb)
    \/ Pause
    \/ Stop
    \/ Destroy
    \/ AnimationFrame
    \/ \E v \in Videos : VideoAdvance(v)
    \/ \E v \in Videos : SourceStops(v)

Spec == Init /\ [][Next]_vars

(***************************************************************************)
(* The conversion alone: a player holding any small still image, under     *)
(* any of the configurations, converts it.                                 *)
(***************************************************************************)
InitConv ==
    \E o \in ConvOptions, n \in 0..MaxStep, b \in BOOLEAN,
       img \in StillsOf(1..MaxW, 1..MaxH) :
        Start(SetInvertOp(SetStepOp(SetImageOp(
                  NewPlayer(o.chars, DefaultStep, o.threshold), img), n), b),
              "setInvert")

NextConv ==
    \/ ProcessImage
    \/ GetAsciiFrame

SpecConv == InitConv /\ [][NextConv]_vars

(***************************************************************************)
(* The configuration changed during playback: a player that is given one  *)
(* video and plays it while setStep and setInvert are called.              *)
(***************************************************************************)
NextTune ==
    \/ currentVideo = NoVideo /\ \E v \in Videos : SetVideo(v)
    \/ \E cb \in Callbacks : Play(cb)
    \/ Pause
    \/ AnimationFrame
    \/ \E v \in Videos : VideoAdvance(v)
    \/ \E n \in 0..MaxStep : SetStep(n)
    \/ \E b \in BOOLEAN : SetInvert(b)

SpecTune == Init /\ [][NextTune]_vars

(***************************************************************************)
(* A player without a source: before its first setVideo or setImage, its   *)
(* canvas the 300 x 150 one of the document, and after destroy().          *)
(***************************************************************************)
NextFresh ==
    \/ GetAsciiFrame
    \/ \E img \in DemoStills : SetImage(img)
    \/ \E n \in 0..MaxStep : SetStep(n)
    \/ \E b \in BOOLEAN : SetInvert(b)
    \/ \E cb \in Callbacks : Play(cb)
    \/ Pause
    \/ Stop
    \/ Destroy

SpecFresh == Init /\ [][NextFresh]_vars

(***************************************************************************)
(* Loading and the demo: the handlers of the demo, calls of loadVideo and  *)
(* loadImage on the player it holds, and the browser, which answers every  *)
(* load with the media, with an error or not at all.                       *)
(***************************************************************************)
LoadVideo ==
    /\ playerRef # NoPlayer /\ Len(loads) < MaxLoads
    /\ Become(LoadVideoOp(Entry, "this"), "loadVideo")

LoadImage ==
    /\ playerRef # NoPlayer /\ Len(loads) < MaxLoads
    /\ Become(LoadImageOp(Entry, "this"), "loadImage")

\* The buttons of the loaders are disabled while isLoading or isPlaying
\* (lines 499, 507 and 515).
LoadDemoVideo ==
    /\ ~IsLoading(S) /\ ~isPlaying /\ Len(loads) < MaxLoads
    /\ Become(LoadDemoVideoOp(Entry), "loadDemoVideo")

LoadImageFile ==
    /\ ~IsLoading(S) /\ ~isPlaying /\ Len(loads) < MaxLoads
    /\ Become(LoadImageFileOp(Entry), "loadImageFile")

\* The media of load i is there: the promise resolves, and the loader that
\* awaits it goes on at once, with a new element.
MediaLoaded(i) ==
    /\ i <= Len(loads) /\ loads[i].media = "fetching"
    /\ CASE loads[i].on = "this" ->
               Become(OnLoadedOp(Entry, i), "onloaded")
         [] loads[i].on = "new" /\ loads[i].kind = "video" ->
               /\ rafNext < MaxRaf
               /\ \E v \in Videos \ {currentVideo} :
                     Become(AfterLoadVideo(
                                NewVideoElement(OnLoadedOp(Entry, i), v), v),
                            "onloaded")
         [] OTHER ->
               \E img \in DemoStills :
                   Become(AfterLoadImage(OnLoadedOp(Entry, i), img), "onloaded")

\* The media of load i cannot be fetched or decoded: the promise rejects;
\* the loader that awaits it shows the error (lines 279-281).
MediaError(i) ==
    /\ i <= Len(loads) /\ loads[i].media = "fetching"
    /\ Become(OnErrorOp(Entry, i), "onerror")

\* The browser gets no answer for load i.
MediaSilent(i) ==
    /\ i <= Len(loads) /\ loads[i].media = "fetching"
    /\ Become(NoAnswerOp(Entry, i), "noAnswer")

HandlePlayPause ==
    /\ isPlaying \/ currentVideo = NoVideo \/ rafNext < MaxRaf
    /\ Become(HandlePlayPauseOp(Entry), "handlePlayPause")

HandleStop == Become(HandleStopOp(Entry), "handleStop")

\* The demo as mounted: it holds no player.
InitLoad == Start(DemoPlayer, "mount")

\* What the browser does with a load.
Answer == \E i \in 1..MaxLoads : MediaLoaded(i) \/ MediaError(i) \/ MediaSilent(i)

NextLoad ==
    \/ LoadVideo
    \/ LoadImage
    \/ LoadDemoVideo
    \/ LoadImageFile
    \/ Answer
    \/ HandlePlayPause
    \/ HandleStop
    \/ AnimationFrame
    \/ \E v \in Videos : VideoAdvance(v)

\* No fetch stays undecided: the browser answers it, with the media or with
\* an error, or it is one that gets no answer.
Undecided == \E i \in 1..MaxLoads : MediaSilent(i)

SpecLoad == InitLoad /\ [][NextLoad]_vars /\ WF_vars(Undecided)

(***************************************************************************)
(* The demo until and after it is unmounted: its buttons work while it is  *)
(* mounted; the browser answers the loads whenever it does.                *)
(***************************************************************************)
Unmount == Become(UnmountOp(Entry), "unmount")

NextDemo ==
    \/ ~unmounted /\ LoadDemoVideo
    \/ ~unmounted /\ LoadImageFile
    \/ ~unmounted /\ HandlePlayPause
    \/ ~unmounted /\ HandleStop
    \/ ~unmounted /\ Unmount
    \/ Answer
    \/ AnimationFrame
    \/ \E v \in Videos : VideoAdvance(v)

SpecDemo == InitLoad /\ [][NextDemo]_vars

(***************************************************************************)
(* The sampling alone: a player holding a still image of one shade, or of  *)
(* one shade but for one pixel, converts it with any step.                 *)
(***************************************************************************)
InitMono ==
    \E o \in PlayerOptions, n \in 0..MaxStep,
       img \in ShadedStills(1..MaxW, 1..MaxH) :
        Start(SetStepOp(SetImageOp(
                  NewPlayer(o.chars, DefaultStep, o.threshold), img), n),
              "setStep")

NextMono == GetAsciiFrame

SpecMono == InitMono /\ [][NextMono]_vars

(***************************************************************************)
(* The mapping alone: a player holding an image of one pixel, of any red   *)
(* value, converts it under any of the configurations.                     *)
(***************************************************************************)
RedValues == 0..255

InitGlyph ==
    \E o \in GlyphOptions, n \in 0..MaxStep, b \in BOOLEAN, r \in RedValues :
        Start(SetInvertOp(SetStepOp(SetImageOp(
                  NewPlayer(o.chars, DefaultStep, o.threshold),
                  ImageOf(1, 1, <<r>>)), n), b),
              "setInvert")

NextGlyph == GetAsciiFrame

SpecGlyph == InitGlyph /\ [][NextGlyph]_vars

(***************************************************************************)
(* The step: a player constructed with any integer as options.step, whose  *)
(* step setStep changes, converts still images.                            *)
(***************************************************************************)
StepOptions == (0 - 1)..MaxStep

InitStep ==
    \E o \in PlayerOptions, st \in StepOptions :
        Start(NewPlayer(o.chars, st, o.threshold), "new")

NextStep ==
    \/ \E n \in StepOptions : SetStep(n)
    \/ \E img \in DemoStills : SetImage(img)
    \/ \E b \in BOOLEAN : SetInvert(b)
    \/ Sized /\ ProcessImage
    \/ Sized /\ GetAsciiFrame
    \/ Destroy

SpecStep == InitStep /\ [][NextStep]_vars

(***************************************************************************)
(* The arrays handed out: a player whose callers keep the grids they get,  *)
(* from the callback of play() and from getAsciiFrame().                   *)
(***************************************************************************)
\* const frame = player.getAsciiFrame(); setAsciiFrame(frame), lines 360-361.
KeepReturned(s) == IF s.threw = NoError THEN KeepGrid(s) ELSE s

GetAsciiFrameKept ==
    /\ Sized
    /\ Become(KeepReturned(GetAsciiFrameOp(Entry)), "getAsciiFrame")

\* The player has no source: it is new, or destroyed.
Unused == currentVideo = NoVideo /\ canvasPix = <<>>

NextKeep ==
    \/ Unused /\ \E v \in Videos : SetVideo(v)
    \/ Unused /\ \E img \in DemoStills : SetImage(img)
    \/ Play(Keep)
    \/ Pause
    \/ Destroy
    \/ GetAsciiFrameKept
    \/ AnimationFrame
    \/ \E v \in Videos : VideoAdvance(v)

SpecKeep == Init /\ [][NextKeep]_vars

(***************************************************************************)
(* The cycles after a halt: a player whose pause(), stop() and destroy()   *)
(* are remembered until the next play() that throws nothing.               *)
(***************************************************************************)
Halt(s) == [s EXCEPT !.halted = TRUE]

Resume(s) == IF s.threw = NoError THEN [s EXCEPT !.halted = FALSE] ELSE s

PauseThen == Become(Halt(PauseOp(Entry)), "pause")
StopThen == Become(Halt(StopOp(Entry)), "stop")
DestroyThen == Become(Halt(DestroyOp(Entry)), "destroy")

PlayThen(cb) ==
    /\ currentVideo = NoVideo \/ rafNext < MaxRaf
    /\ Become(Resume(PlayOp(Entry, cb)), "play")

NextCycle ==
    \/ \E v \in Videos : SetVideo(v)
    \/ \E cb \in Callbacks : PlayThen(cb)
    \/ PauseThen
    \/ StopThen
    \/ DestroyThen
    \/ AnimationFrame
    \/ \E v \in Videos : VideoAdvance(v)

SpecCycle == Init /\ [][NextCycle]_vars

(***************************************************************************)
(* The palette: a player constructed with any string as options.chars,     *)
(* the empty one and one of a single glyph included, and with thresholds   *)
(* inside and outside 0..255, converts still images.                       *)
(***************************************************************************)
AnyChars == {<<>>, <<"#">>, TwoChars, DefaultChars}
AnyThresholds == {0 - 1, 0, 100, 255, 300}

AnyOptions ==
    {[chars |-> cs, threshold |-> DefaultThreshold(cs)] : cs \in AnyChars}
    \cup {[chars |-> cs, threshold |-> th] :
              cs \in AnyChars, th \in AnyThresholds}

InitPalette ==
    \E o \in AnyOptions, n \in 1..MaxStep, b \in BOOLEAN,
       img \in ShadedStills({MaxW}, {MaxH}) :
        Start(SetInvertOp(SetStepOp(SetImageOp(
                  NewPlayer(o.chars, DefaultStep, o.threshold), img), n), b),
              "setInvert")

NextPalette ==
    \/ ProcessImage
    \/ GetAsciiFrame

SpecPalette == InitPalette /\ [][NextPalette]_vars

(***************************************************************************)
(* Video sessions alone, the calls both copies of the class have: setVideo,*)
(* play, pause, stop, destroy, and getAsciiFrame while there is a video.   *)
(***************************************************************************)
NextTwin ==
    \/ \E v \in Videos : SetVideo(v)
    \/ \E cb \in Callbacks \cup {NoCallback} : Play(cb)
    \/ Pause
    \/ Stop
    \/ Destroy
    \/ currentVideo # NoVideo /\ GetAsciiFrame
    \/ AnimationFrame
    \/ \E v \in Videos : VideoAdvance(v)

SpecTwin == Init /\ [][NextTwin]_vars

(***************************************************************************)
(* Properties of the conversion, checked under SpecConv.                   *)
(***************************************************************************)
\* The last call converted the canvas: data is the grid of the bitmap and
\* the configuration of this state.
Converted == lastOp \in {"processImage", "getAsciiFrame"} /\ threw = NoError

Ceil(a, b) == (a + b - 1) \div b

\* The cells of the stored grid, (gy, gx) counted from 0.
Cells == {<<gy, gx>> \in (0..(Len(data) - 1)) \X (0..(Ceil(canvasW, step) - 1)) :
             gx < Len(data[gy + 1])}

\* The pixels of the bitmap in the block of cell (gy, gx).
BlockPixels(gy, gx) ==
    {<<py, px>> \in ((gy * step)..(gy * step + step - 1))
                    \X ((gx * step)..(gx * step + step - 1)) :
        py < canvasH /\ px < canvasW}

RECURSIVE RedTotal(_)
RedTotal(P) ==
    IF P = {} THEN 0
    ELSE LET q == CHOOSE q \in P : TRUE
         IN  Pixel(canvasPix, (q[1] * canvasW + q[2]) * 4) + RedTotal(P \ {q})

\* C1: one conversion of a W x H bitmap with step k gives ceil(H/k) rows of
\* ceil(W/k) glyphs each; with k = 1, H rows of W glyphs.
C1_GridDimensions ==
    Converted =>
        /\ Len(data) = Ceil(canvasH, step)
        /\ \A r \in 1..Len(data) : Len(data[r]) = Ceil(canvasW, step)
        /\ step = 1 =>
              /\ Len(data) = canvasH
              /\ \A r \in 1..Len(data) : Len(data[r]) = canvasW

\* A bitmap of width 3 converted with step 2: two glyphs a row, the second
\* from a block cut at the right edge.
C1_Witness ==
    /\ Converted
    /\ canvasW = 3 /\ canvasH = 2 /\ step = 2
    /\ Len(data) = 1 /\ Len(data[1]) = 2

\* The glyph the claim gives a cell of brightness v / den.
ClaimedGlyph(v, den) ==
    LET v1 == IF invert THEN 255 * den - v ELSE v
        v2 == IF v1 > threshold * den THEN 255 * den ELSE v1
    IN  CharAt(chars, FloorIndex(v2, den, Len(chars), invert))

C3_BlockAverage ==
    Converted =>
        \A c \in Cells :
            LET a == BlockAverage(canvasPix, canvasW, canvasH,
                                  c[2] * step, c[1] * step, step)
            IN  /\ a.num = RedTotal(BlockPixels(c[1], c[2]))
                /\ a.den = step * step
                /\ 0 <= a.num /\ a.num <= 255 * a.den

\* A block cut at the right edge that holds a bright pixel.
C3_Witness ==
    /\ Converted
    /\ canvasW = 3 /\ step = 2
    /\ Pixel(canvasPix, 2 * 4) = 255
    /\ Cardinality(BlockPixels(0, 1)) < step * step

\* The cells of the grid of the canvas, (gy, gx) counted from 0.
GridCells == (0..(Ceil(canvasH, step) - 1)) \X (0..(Ceil(canvasW, step) - 1))

\* Bitmap q is at least as bright as bitmap p in every pixel of the canvas
\* that lies in the block of cell c.
BrighterIn(c, p, q) ==
    \A px \in BlockPixels(c[1], c[2]) :
        Pixel(q, (px[1] * canvasW + px[2]) * 4)
            >= Pixel(p, (px[1] * canvasW + px[2]) * 4)

\* The average of the block of cell c in bitmap p.
AverageIn(c, p) ==
    BlockAverage(p, canvasW, canvasH, c[2] * step, c[1] * step, step)

\* C18: for two bitmaps of the same size and the same step, a block in
\* which every pixel of the second bitmap has a red value at least that of
\* the first has an average in the second at least that in the first.
C18_SamplingMonotonic ==
    \A other \in ShadedStills({canvasW}, {canvasH}) :
        \A c \in GridCells :
            LET a == AverageIn(c, canvasPix)
                b == AverageIn(c, other.pix)
            IN  /\ BrighterIn(c, canvasPix, other.pix)
                      => b.num * a.den >= a.num * b.den
                /\ BrighterIn(c, other.pix, canvasPix)
                      => a.num * b.den >= b.num * a.den

\* A converted bitmap with a block cut at the right edge for which a
\* second bitmap is brighter in one pixel of the block, and so in average.
C18_Witness ==
    /\ Converted
    /\ canvasW = 3 /\ canvasH = 2 /\ step = 2
    /\ \E other \in ShadedStills({canvasW}, {canvasH}) :
          /\ BrighterIn(<<0, 1>>, canvasPix, other.pix)
          /\ other.pix # canvasPix
          /\ AverageIn(<<0, 1>>, other.pix).num
                 > AverageIn(<<0, 1>>, canvasPix).num
          /\ AverageIn(<<0, 0>>, other.pix).num
                 = AverageIn(<<0, 0>>, canvasPix).num

\* The index in the palette of glyph g (the glyphs of a palette of the model
\* are distinct).
PaletteIndex(g) == CHOOSE k \in 0..(Len(chars) - 1) : chars[k + 1] = g

\* The brightness a after the inversion, as a multiple of 1 / a.den.
Inverted(a) == IF invert THEN 255 * a.den - a.num ELSE a.num

\* C19: for the palette and the threshold of the player, of two brightness
\* values the one that is smaller after the inversion does not get the
\* larger index in the palette, the threshold clip included.  The first
\* value is the one of the converted image, its index the one of the glyph
\* stored; the second is any average of a block, m / step^2 up to 255.
C19_GlyphMonotonic ==
    Converted =>
        LET a == AverageIn(<<0, 0>>, canvasPix)
            i == PaletteIndex(data[1][1])
        IN  \A m \in 0..(255 * a.den) :
                LET b == [num |-> m, den |-> a.den]
                    j == GlyphIndex(b, chars, threshold, invert)
                IN  /\ Inverted(a) <= Inverted(b) => i <= j
                    /\ Inverted(b) <= Inverted(a) => j <= i

\* A converted image whose brightness is just at the threshold: it keeps
\* its index, below the last, and the next brightness is clipped to the
\* last index.
C19_Witness ==
    /\ Converted
    /\ Len(chars) = 10 /\ threshold = 100 /\ step = 1 /\ ~invert
    /\ Pixel(canvasPix, 0) = 100
    /\ PaletteIndex(data[1][1]) = 3
    /\ GlyphIndex([num |-> 101, den |-> 1], chars, threshold, invert) = 9

\* Green, blue and alpha values a pixel can have.
Tints == {<<0, 0, 0>>, <<255, 255, 255>>, <<10, 200, 128>>, <<0, 255, 0>>}

\* The bitmap pix with the green, blue and alpha of pixel p (from 1) taken
\* from f[p], and the red of pix.
Tinted(pix, f) ==
    [i \in 1..Len(pix) |->
        IF (i - 1) % 4 = 0 THEN pix[i]
        ELSE f[((i - 1) \div 4) + 1][(i - 1) % 4]]

\* Ways of colouring n pixels: all alike, or one unlike the others.
Recolourings(n) ==
    {[p \in 1..n |-> u] : u \in Tints}
    \cup {[p \in 1..n |-> IF p = q THEN u ELSE <<0, 0, 0>>] :
              q \in 1..n, u \in Tints}

\* C24: only the red channel counts: a bitmap of the same size that has the
\* same red value in every pixel, whatever its green, blue and alpha values,
\* converts to the same grid under the same configuration.
C24_OnlyRedChannel ==
    Converted =>
        \A f \in Recolourings(canvasW * canvasH) :
            Rows(Tinted(canvasPix, f), canvasW, canvasH, step, chars,
                 threshold, invert) = data

\* A bitmap of several pixels has been converted to a grid of more than one
\* glyph, and it has other green, blue and alpha values than its
\* recolourings.
C24_Witness ==
    /\ Converted /\ canvasW * canvasH > 1
    /\ \A f \in Recolourings(canvasW * canvasH) :
           Tinted(canvasPix, f) # canvasPix
    /\ \E c \in Cells : data[c[1] + 1][c[2] + 1] # data[1][1]

\* C27: for every palette and threshold the constructor accepts and every
\* bitmap, every cell of the grid is a glyph of the palette: the index
\* computed for it lies in 0..L-1.
C27_CellsInPalette ==
    Converted =>
        \A c \in Cells :
            \E k \in 1..Len(chars) : data[c[1] + 1][c[2] + 1] = chars[k]

\* Every pixel of the canvas has the red value 0.
AllZero ==
    \A p \in 0..(canvasW * canvasH - 1) : Pixel(canvasPix, 4 * p) = 0

\* C20: with the palette "@ ", its default threshold and step 1, a bitmap
\* of red values 0 converts to a grid of one cell a pixel, each the first
\* glyph "@", and with invert to a grid in which each is the last glyph " ";
\* a 2 x 2 bitmap gives [["@","@"],["@","@"]] and [[" "," "],[" "," "]].
C20_AllZeroEndToEnd ==
    (/\ Converted /\ AllZero
     /\ chars = TwoChars /\ threshold = DefaultThreshold(TwoChars)
     /\ step = 1)
        => /\ Len(data) = canvasH
           /\ \A r \in 1..Len(data) :
                 /\ Len(data[r]) = canvasW
                 /\ \A c \in 1..Len(data[r]) :
                       data[r][c] = IF invert THEN " " ELSE "@"
           /\ (canvasW = 2 /\ canvasH = 2) =>
                 data = IF invert THEN <<<<" ", " ">>, <<" ", " ">>>>
                        ELSE <<<<"@", "@">>, <<"@", "@">>>>

\* The 2 x 2 bitmap of zeros has been converted with invert.
C20_Witness ==
    /\ Converted /\ AllZero /\ invert
    /\ chars = TwoChars /\ threshold = DefaultThreshold(TwoChars)
    /\ step = 1 /\ canvasW = 2 /\ canvasH = 2
    /\ data = <<<<" ", " ">>, <<" ", " ">>>>

\* C13: on a still-image session a getAsciiFrame() that follows a
\* getAsciiFrame(), with nothing in between, returns a grid with the same
\* contents as the first.
C13_StillFrameTwice ==
    (lastOp = "getAsciiFrame" /\ threw = NoError /\ currentVideo = NoVideo) =>
        LET again == GetAsciiFrameOp(Entry)
        IN  again.threw = NoError /\ again.data = data

\* getAsciiFrame() has returned the grid of an image that is not of one
\* shade.
C13_Witness ==
    /\ lastOp = "getAsciiFrame" /\ threw = NoError /\ currentVideo = NoVideo
    /\ canvasW = 3 /\ step = 1
    /\ data[1][1] # data[1][2]

(***************************************************************************)
(* Properties of the playback and of the lifecycle, checked under Spec.    *)
(***************************************************************************)
\* What a call may change: the player's fields and the browser's objects.
Effects == <<chars, step, threshold, invert, currentVideo, canvasW, canvasH,
             canvasPix, data, animationFrameId, onFrameCallback, paused,
             currentTime, rafPending, rafNext>>

\* C4: play() on a player without a video (never set, an image session, or
\* after destroy()) throws at once and changes nothing: the callback is not
\* replaced, no video starts playing and no frame is requested.
C4_PlayWithoutVideo ==
    [][(lastOp' = "play" /\ currentVideo = NoVideo)
          => (threw' = NoVideoLoaded /\ emitted' = <<>> /\ UNCHANGED Effects)]_vars

\* play() has thrown on an image session.
C4_Witness ==
    /\ lastOp = "play" /\ threw = NoVideoLoaded
    /\ currentVideo = NoVideo
    /\ canvasW > 0 /\ canvasPix # <<>>

\* C5: at a timing signal that finds the current video paused, the loop
\* hands no grid to the callback, converts nothing and requests no further
\* frame, without pause() or stop() having been called.
C5_LoopEndsWithSource ==
    [][(lastOp' = "frame" /\ currentVideo # NoVideo /\ paused[currentVideo])
          => (emitted' = <<>> /\ rafPending' = {} /\ rafNext' = rafNext
              /\ data' = data)]_vars

\* The loop has ended by itself: after play(cb) the browser paused the video,
\* and the next timing signal requested nothing; animationFrameId still
\* holds the id of the last request, which no pause() or stop() has cleared.
C5_Witness ==
    /\ lastOp = "frame"
    /\ currentVideo # NoVideo /\ paused[currentVideo]
    /\ onFrameCallback # NoCallback
    /\ currentTime[currentVideo] > 0
    /\ \A v \in Videos : paused[v]
    /\ animationFrameId = rafNext /\ rafNext > 0
    /\ rafPending = {} /\ emitted = <<>>

\* C6: after pause() or stop() no render cycle of the player is requested
\* any more, and the video is paused, whatever was called before.
C6_NothingScheduledAfterPause ==
    lastOp \in {"pause", "stop"} =>
        /\ rafPending = {}
        /\ currentVideo # NoVideo => paused[currentVideo]

\* C7: pause() and stop() never throw, and a second call changes nothing the
\* first has not: the video is paused and, after stop(), at position 0.
C7_PauseStopIdempotent ==
    LET p == PauseOp(Entry)
        q == StopOp(Entry)
    IN  /\ p.threw = NoError /\ q.threw = NoError
        /\ PauseOp(p) = p
        /\ StopOp(q) = q
        /\ currentVideo # NoVideo =>
              /\ p.paused[currentVideo]
              /\ q.paused[currentVideo] /\ q.currentTime[currentVideo] = 0

\* stop() has paused and rewound a video of which a frame had been shown
\* beyond the first, and has cancelled the request of the loop.
C7_Witness ==
    /\ lastOp = "stop" /\ threw = NoError
    /\ currentVideo # NoVideo
    /\ paused[currentVideo] /\ currentTime[currentVideo] = 0
    /\ rafNext > 0 /\ rafPending = {} /\ animationFrameId = NoFrame
    /\ data # <<>>

\* C8: destroy() never throws, on a new player, on an active session or
\* repeated; a second destroy() changes nothing, and play() then throws the
\* error of a player without a video.
C8_DestroyTwice ==
    LET d == DestroyOp(Entry)
        dd == DestroyOp(d)
    IN  /\ d.threw = NoError /\ dd.threw = NoError
        /\ dd = d
        /\ \A cb \in Callbacks \cup {NoCallback} :
              /\ PlayOp(d, cb).threw = NoVideoLoaded
              /\ PlayOp(dd, cb).threw = NoVideoLoaded

\* play() has thrown on a destroyed player that had been playing.
C8_Witness ==
    /\ lastOp = "play" /\ threw = NoVideoLoaded
    /\ canvasW = 0 /\ canvasH = 0
    /\ rafNext > 0

\* C9: after destroy() the video that was current is paused and at position
\* 0, the player has no video and no callback, the canvas is 0 x 0 and the
\* stored grid is empty.
C9_DestroyReleases ==
    [][lastOp' = "destroy"
          => /\ currentVideo # NoVideo =>
                   paused'[currentVideo] /\ currentTime'[currentVideo] = 0
             /\ currentVideo' = NoVideo
             /\ onFrameCallback' = NoCallback
             /\ canvasW' = 0 /\ canvasH' = 0 /\ canvasPix' = <<>>
             /\ data' = <<>>
             /\ threw' = NoError]_vars

\* destroy() has ended a session that was playing with a callback.
C9_Witness ==
    /\ lastOp = "destroy"
    /\ rafNext > 0
    /\ \A v \in Videos : paused[v] /\ currentTime[v] = 0
    /\ rafPending = {} /\ animationFrameId = NoFrame

\* C10: setVideo() or setImage() on a player whose video is another one
\* leaves that video paused and no render cycle requested.
C10_NewSessionEndsOld ==
    [][(lastOp' \in {"setVideo", "setImage"} /\ currentVideo # NoVideo
        /\ currentVideo' # currentVideo)
          => (paused'[currentVideo] /\ rafPending' = {})]_vars

\* C14: getAsciiFrame() on a video session, whether the video has been
\* played or not and is playing or paused, draws the frame the video shows,
\* converts it and returns that grid; it calls no callback, requests and
\* cancels no render cycle, and leaves the video playing or paused where it
\* is.
C14_PullDecoupled ==
    [][(lastOp' = "getAsciiFrame" /\ currentVideo # NoVideo)
          => LET v == currentVideo
                 frame == VideoFrame(v, currentTime[v])
             IN  /\ threw' = NoError
                 /\ canvasPix' = frame
                 /\ data' = Rows(frame, VideoWidth(v), VideoHeight(v),
                                 step, chars, threshold, invert)
                 /\ emitted' = <<>>
                 /\ UNCHANGED <<currentVideo, onFrameCallback, animationFrameId,
                                rafPending, rafNext, paused, currentTime>>]_vars

\* getAsciiFrame() has returned the grid of the second frame of a video that
\* is playing with a callback and a requested cycle.
C14_Witness ==
    /\ lastOp = "getAsciiFrame" /\ threw = NoError
    /\ currentVideo # NoVideo /\ ~paused[currentVideo]
    /\ currentTime[currentVideo] = 1
    /\ onFrameCallback # NoCallback /\ rafPending # {}
    /\ canvasPix = VideoFrame(currentVideo, 1)
    /\ data # <<>> /\ emitted = <<>>

\* The grid of image img under the configuration of this state.
GridOf(img) ==
    Rows(img.pix, img.width, img.height, step, chars, threshold, invert)

\* C15: when setImage(img) returns, the stored grid is the conversion of img
\* under the current configuration.
C15_SetImageConverts ==
    [][lastOp' = "setImage"
          => \E img \in DemoStills :
                 canvasPix' = img.pix /\ data' = GridOf(img)]_vars

\* C15 as the code has it: setImage(img), img a decoded image of at least
\* one pixel, makes the canvas a copy of img without a video and leaves the
\* stored grid as it was; processImage() or getAsciiFrame() right after it,
\* without play(), makes the stored grid the conversion of img under the
\* current configuration.
C15_SetImageDraws ==
    [][/\ lastOp' = "setImage"
            => /\ data' = data
               /\ currentVideo' = NoVideo
               /\ \E img \in DemoStills :
                     /\ canvasW' = img.width /\ canvasH' = img.height
                     /\ canvasPix' = img.pix
       /\ (lastOp = "setImage" /\ lastOp' \in {"processImage", "getAsciiFrame"})
            => /\ threw' = NoError
               /\ \E img \in DemoStills :
                     canvasPix = img.pix /\ data' = GridOf(img)]_vars

\* setImage() has returned on a player that shows a video: the stored grid
\* is still that of the video's frame, not the conversion of the image.
C15_Witness ==
    /\ lastOp = "setImage"
    /\ data # <<>>
    /\ \E img \in DemoStills : canvasPix = img.pix /\ data # GridOf(img)

(***************************************************************************)
(* Properties of the configuration during playback, checked under SpecTune.*)
(***************************************************************************)
\* C16: setStep() and setInvert() on a playing video leave the stored grid
\* (the array the callback was last given) as it is and the requested cycle
\* requested; every cycle that runs while the video plays converts the
\* frame the video shows with the configuration of that moment, hands that
\* grid to the callback and requests the next cycle.
C16_ConfigurationOnNextCycle ==
    [][/\ lastOp' \in {"setStep", "setInvert"}
            => /\ threw' = NoError /\ emitted' = <<>>
               /\ UNCHANGED <<data, canvasPix, rafPending, rafNext,
                              animationFrameId, onFrameCallback, paused,
                              currentTime, currentVideo>>
       /\ (lastOp' = "frame" /\ currentVideo # NoVideo /\ ~paused[currentVideo])
            => LET v == currentVideo
                   grid == Rows(VideoFrame(v, currentTime[v]),
                                VideoWidth(v), VideoHeight(v),
                                step, chars, threshold, invert)
               IN  /\ data' = grid
                   /\ emitted' # <<>>
                   /\ \A k \in 1..Len(emitted') : emitted'[k] = grid
                   /\ rafPending' # {}]_vars

\* setStep(3) has returned while the video plays: the cycle is still
\* requested and the stored grid is still the one converted with the step
\* before.
C16_Witness ==
    /\ lastOp = "setStep" /\ step = 3
    /\ currentVideo # NoVideo /\ ~paused[currentVideo]
    /\ onFrameCallback # NoCallback /\ rafPending # {}
    /\ data # <<>>
    /\ data # Rows(canvasPix, canvasW, canvasH, step, chars, threshold, invert)

(***************************************************************************)
(* Properties of a player without a source, checked under SpecFresh.       *)
(***************************************************************************)
\* No source is active: no video, and the canvas is the one of a player
\* that never had a source, or the one destroy() leaves.
NoSource ==
    /\ currentVideo = NoVideo
    /\ \/ canvasW = DefaultCanvasWidth /\ canvasH = DefaultCanvasHeight
       \/ canvasW = 0 /\ canvasH = 0

\* C17: getAsciiFrame() on a player without an active source, before the
\* first setVideo() or setImage() or after destroy(), throws the error of a
\* player without a source and returns no grid.
C17_FrameWithoutSource ==
    [][(lastOp' = "getAsciiFrame" /\ NoSource)
          => (threw' = NoVideoLoaded /\ data' = data)]_vars

(***************************************************************************)
(* Properties of loading, checked under SpecLoad.                          *)
(***************************************************************************)
\* The session of the player the demo holds: its source, its canvas, the
\* stored grid, the callback, the cycle that is requested, and the player
\* itself.
Session == <<currentVideo, canvasW, canvasH, canvasPix, data, onFrameCallback,
             animationFrameId, rafPending, paused, currentTime, playerRef,
             chars, step, threshold, invert>>

C12_LoadSettles ==
    \A i \in 1..MaxLoads :
        (i <= Len(loads) /\ loads[i].promise = Pending)
            ~> (i <= Len(loads) /\ loads[i].promise # Pending)

(***************************************************************************)
(* Properties of the scheduling, checked under Spec.                       *)
(***************************************************************************)
\* C25: at every moment at most one render cycle of the player is requested
\* and not yet run, animationFrameId is its id whenever there is one, and a
\* timing signal hands at most one grid to the callback; play() while
\* playing included.
C25_OneCyclePending ==
    /\ Cardinality(rafPending) <= 1
    /\ rafPending # {} => rafPending = {animationFrameId}
    /\ lastOp = "frame" => Len(emitted) <= 1

\* C26: from the return of pause(), stop() or destroy() to the next play()
\* that throws nothing, the callback is not called, and a cycle requested
\* before that still runs captures no frame and stores no grid.
C26_NoFrameAfterHalt ==
    [][(halted /\ halted')
          => /\ emitted' = <<>>
             /\ lastOp' = "frame" => UNCHANGED <<canvasPix, data>>]_vars

(***************************************************************************)
(* Properties of the two copies of the class, checked under SpecTwin.      *)
(***************************************************************************)
\* C28: on video sessions without invert the standalone copy of the class
\* does what the embedded one does: from every state the same calls and
\* timing signals lead both to the same state, throw the same, hand the
\* same grids to the callback and store (and return) the same grid.
\* setVideo, pause, stop and destroy are one text in both copies.
C28_CopiesAgree ==
    ~invert =>
        /\ \A cb \in Callbacks \cup {NoCallback} :
               StandalonePlayOp(Entry, cb) = PlayOp(Entry, cb)
        /\ StandaloneRunFrame(Entry, rafPending) = RunFrame(Entry, rafPending)
        /\ currentVideo # NoVideo =>
               StandaloneGetAsciiFrameOp(Entry) = GetAsciiFrameOp(Entry)

\* A timing signal, not the first, has handed the callback a grid of two
\* different glyphs of a playing video, and the standalone copy converts
\* the frame shown now to the same grid.
C28_Witness ==
    /\ lastOp = "frame" /\ emitted # <<>> /\ ~invert
    /\ currentVideo # NoVideo /\ ~paused[currentVideo]
    /\ rafNext > 2
    /\ Len(data[1]) > 1 /\ data[1][1] # data[1][2]
    /\ StandaloneGetAsciiFrameOp(Entry).data = data

(***************************************************************************)
\* C21: in every state of a player step is an integer of at least 1,
\* whether the constructor or setStep has assigned it, and so a conversion
\* of a bitmap returns.
C21_StepPositive == step >= 1 /\ threw # NeverReturns

\* A still image is on the canvas.
StillSession == currentVideo = NoVideo /\ canvasW > 0 /\ canvasH > 0

\* C22: on a still-image session getAsciiFrame() returns the last computed
\* grid without computing it again: called after setStep or setInvert, with
\* no processImage() in between, it returns the grid stored before the
\* change.
C22_StillFrameCached ==
    [][(/\ lastOp' = "getAsciiFrame" /\ threw' = NoError
        /\ StillSession /\ data # <<>>
        /\ lastOp \in {"setStep", "setInvert"})
          => data' = data]_vars

\* C22 as the code has it: on a still-image session every getAsciiFrame()
\* converts the canvas again, under the configuration of the moment of the
\* call, and stores and returns that grid; it changes neither the canvas
\* nor the configuration.  With a step below 1 it does not return.
C22_StillFrameConvertedAgain ==
    [][(lastOp' = "getAsciiFrame" /\ StillSession)
          => /\ UNCHANGED <<canvasW, canvasH, canvasPix, chars, step,
                            threshold, invert, currentVideo>>
             /\ IF step >= 1
                THEN /\ threw' = NoError
                     /\ data' = Rows(canvasPix, canvasW, canvasH, step, chars,
                                     threshold, invert)
                ELSE threw' = NeverReturns /\ data' = data]_vars

\* getAsciiFrame() after setInvert(true) has returned the grid of the image
\* under the inversion, which is not its grid without.
C22_Witness ==
    /\ lastOp = "getAsciiFrame" /\ threw = NoError /\ StillSession
    /\ invert /\ step = 1
    /\ data = Rows(canvasPix, canvasW, canvasH, step, chars, threshold, TRUE)
    /\ data # Rows(canvasPix, canvasW, canvasH, step, chars, threshold, FALSE)

(***************************************************************************)
(* Properties of the arrays handed out, checked under SpecKeep.            *)
(***************************************************************************)
\* A grid is complete: its rows have one length, and every cell is a glyph
\* of the palette.
Complete(g) ==
    \A r \in 1..Len(g) :
        /\ Len(g[r]) = Len(g[1]) /\ Len(g[r]) > 0
        /\ \A c \in 1..Len(g[r]) : \E k \in 1..Len(chars) : g[r][c] = chars[k]

\* C23: a grid array the player has handed to the callback or returned from
\* getAsciiFrame() is complete and is never written again, by no later
\* cycle and no later call: it contains what it contained when it was
\* handed out, and once the player has stored another grid it is not the
\* array the player holds.
C23_GridReplacedWholesale ==
    \A i \in 1..Len(kept) :
        /\ kept[i].grid = kept[i].was
        /\ Complete(kept[i].was)
        /\ kept[i].cur => data = kept[i].grid

\* A cycle has stored a grid that differs from the two handed out before,
\* which the callers still hold.
C23_Witness ==
    /\ lastOp = "frame" /\ Len(kept) = MaxKept
    /\ ~kept[1].cur /\ ~kept[2].cur
    /\ kept[1].was # kept[2].was
    /\ data # kept[1].grid /\ data # kept[2].grid /\ data # <<>>

(***************************************************************************)
(* Properties of the players of the demo, checked under SpecDemo.          *)
(***************************************************************************)
\* No video but that of the player the demo holds is playing, and no cycle
\* but the one that player has noted is requested.
OnlyInstalledActive ==
    /\ \A v \in Videos : ~paused[v] => v = currentVideo
    /\ rafPending \subseteq {animationFrameId}

\* Nothing plays and no cycle is requested.
NoneActive == (\A v \in Videos : paused[v]) /\ rafPending = {}

\* C29: in the demo at most one player has a playing source or a requested
\* cycle at every moment: the one it holds, and a player it replaces has
\* neither left when the new one starts; after the unmount none has.
C29_OnePlayerActive ==
    [][/\ OnlyInstalledActive'
       /\ (playerRef' # playerRef /\ playerRef # NoPlayer)
             => /\ DestroyOp(S).rafPending = {}
                /\ \A v \in Videos : DestroyOp(S).paused[v]
       /\ unmounted' => NoneActive']_vars

====
